---- MODULE Spec2Model ----
(***************************************************************************)
(* Turtle (src/src/main.go): a lexer that splits every line of the input   *)
(* file into whitespace-delimited words, and a recursive-descent parser    *)
(* that evaluates statements while it parses them.                         *)
(*                                                                         *)
(* A Go string is a sequence of bytes: an ASCII byte is written as its     *)
(* character ("a", "5", " "), any other byte by its hexadecimal value       *)
(* ("xE2"), so that the lexer's scanning, strconv.Atoi and the conversion  *)
(* rune(tokenText[0]) are computed byte by byte.  A rune is written as its *)
(* character if it is ASCII and as its code point ("U+20AC") if not.  The  *)
(* parser is a stack machine: one frame per active call of parseStatement, *)
(* parseExpression or parseTerm, one action per straight-line segment of   *)
(* a function between two calls or returns.                                *)
(*                                                                         *)
(* Go's int is 64 bits wide.  The literals of the inputs below have at     *)
(* most two digits and a statement at most MaxTerms + 3 operators, so no   *)
(* value comes near 2^63 and the arithmetic is that of the integers.       *)
(***************************************************************************)
EXTENDS Integers, Sequences, FiniteSets, TLC

VARIABLES
    source,     \* the lines of the input file, once opened (main.go:26)
    scanned,    \* lines l.scanner has delivered so far (main.go:43)
    tokens,     \* Lexer.tokens (main.go:21)
    curToken,   \* Parser.curToken (main.go:106)
    variables,  \* Parser.variables (main.go:107)
    output,     \* the lines written by fmt.Println (main.go:139, 143)
    stack,      \* the active calls below main, innermost last
    retval,     \* the value the last returned call returned
    pc,         \* where main is (main.go:240-264)
    panicMsg,   \* the argument of panic(), once pc = "panic"
    stmtStart   \* history: tokens remaining when parseStatement was last called

vars == <<source, scanned, tokens, curToken, variables, output, stack, retval,
          pc, panicMsg, stmtStart>>

----------------------------------------------------------------------------
(* Bytes and runes *)

Digits == {"0", "1", "2", "3", "4", "5", "6", "7", "8", "9"}

\* the runes unicode.IsLetter holds of, among those of this module: the
\* ASCII letters and U+00E2, LATIN SMALL LETTER A WITH CIRCUMFLEX
Letters ==
    {"a", "b", "c", "d", "e", "f", "g", "h", "i", "j", "k", "l", "m", "n",
     "o", "p", "q", "r", "s", "t", "u", "v", "w", "x", "y", "z",
     "A", "B", "C", "D", "E", "F", "G", "H", "I", "J", "K", "L", "M", "N",
     "O", "P", "Q", "R", "S", "T", "U", "V", "W", "X", "Y", "Z", "U+00E2"}

\* the UTF-8 encoding of U+20AC, EURO SIGN, which is no letter
Euro == <<"xE2", "x82", "xAC">>

\* rune(b) of a byte b: the rune whose code point is the byte's value
RuneOfByte(b) ==
    CASE b = "xE2" -> "U+00E2"
      [] b = "x82" -> "U+0082"
      [] b = "xAC" -> "U+00AC"
      [] OTHER -> b

\* utf8.DecodeRune(data[i:]): the rune that starts at place i and its width
\* in bytes; a byte that starts no well-formed encoding is U+FFFD, width 1
DecodeRune(data, i) ==
    IF data[i] \notin {"xE2", "x82", "xAC"} THEN [rune |-> data[i], width |-> 1]
    ELSE IF i + 2 <= Len(data) /\ SubSeq(data, i, i + 2) = Euro
         THEN [rune |-> "U+20AC", width |-> 3]
    ELSE [rune |-> "U+FFFD", width |-> 1]

\* bufio's isSpace, on the runes of this module
isSpace(r) == r = " "

\* unicode.IsLetter
IsLetter(r) == r \in Letters

DigitValue(c) ==
    CASE c = "0" -> 0 [] c = "1" -> 1 [] c = "2" -> 2 [] c = "3" -> 3
      [] c = "4" -> 4 [] c = "5" -> 5 [] c = "6" -> 6 [] c = "7" -> 7
      [] c = "8" -> 8 [] c = "9" -> 9

----------------------------------------------------------------------------
(* The lexer *)

\* strconv.Atoi's digit loop: n = n*10 + digit, left to right
RECURSIVE AtoiDigits(_, _)
AtoiDigits(s, n) ==
    IF s = <<>> THEN n ELSE AtoiDigits(Tail(s), n * 10 + DigitValue(Head(s)))

\* strconv.Atoi: an optional sign, then one or more decimal digits
Atoi(s) ==
    LET signed == s # <<>> /\ Head(s) \in {"+", "-"}
        body   == IF signed THEN Tail(s) ELSE s
    IN  IF body = <<>> \/ \E i \in DOMAIN body : body[i] \notin Digits
        THEN [err |-> TRUE, val |-> 0]
        ELSE [err |-> FALSE,
              val |-> IF Head(s) = "-" THEN 0 - AtoiDigits(body, 0)
                                       ELSE AtoiDigits(body, 0)]

\* getTokenType: "PANIC" stands for the index-out-of-range panic of
\* tokenText[0] on an empty word
getTokenType(tokenText) ==
    CASE tokenText = <<"+">> -> "PLUS"
      [] tokenText = <<"-">> -> "MINUS"
      [] tokenText = <<"*">> -> "MULTIPLY"
      [] tokenText = <<"/">> -> "DIVIDE"
      [] tokenText = <<"=">> -> "ASSIGN"
      [] tokenText = <<"(">> -> "LPAREN"
      [] tokenText = <<")">> -> "RPAREN"
      [] OTHER ->
           IF ~Atoi(tokenText).err THEN "NUMBER"
           ELSE IF tokenText = <<>> THEN "PANIC"
           ELSE IF IsLetter(RuneOfByte(tokenText[1])) THEN "IDENT"
           ELSE "UNKNOWN"

\* bufio.ScanWords and the scanner's loop around it: from place i on, skip
\* the leading spaces, then scan rune by rune to the first space or to the
\* end of the data, which ends the word; the words delivered, in order
ScanWords(data) ==
    LET wordEnd[i \in 1..Len(data) + 1] ==
            IF i > Len(data) THEN i
            ELSE IF isSpace(DecodeRune(data, i).rune) THEN i
            ELSE wordEnd[i + DecodeRune(data, i).width]
        scan[i \in 1..Len(data) + 1] ==
            IF i > Len(data) THEN <<>>
            ELSE IF isSpace(DecodeRune(data, i).rune)
                 THEN scan[i + DecodeRune(data, i).width]
            ELSE <<SubSeq(data, i, wordEnd[i] - 1)>> \o scan[wordEnd[i]]
    IN  scan[1]

\* tokenizeLine
tokenizeLine(line) ==
    LET words == ScanWords(line)
    IN  [i \in 1..Len(words) |->
            [Type |-> getTokenType(words[i]), Value |-> words[i]]]

\* mutant: the zero Token, not EOF, once the tokens are exhausted
NextToken_zeroToken(toks) ==
    IF Len(toks) = 0
    THEN [token |-> [Type |-> "", Value |-> <<>>], rest |-> toks]
    ELSE [token |-> toks[1], rest |-> Tail(toks)]

\* NextToken: the token returned and the tokens left
NextToken(toks) ==
    IF Len(toks) = 0
    THEN [token |-> [Type |-> "EOF", Value |-> <<>>], rest |-> toks]
    ELSE [token |-> toks[1], rest |-> Tail(toks)]

----------------------------------------------------------------------------
(* The evaluator's arithmetic *)

Abs(n) == IF n < 0 THEN 0 - n ELSE n

\* Go's integer division truncates toward zero
GoDiv(a, b) ==
    IF (a < 0) = (b < 0) THEN Abs(a) \div Abs(b) ELSE 0 - (Abs(a) \div Abs(b))

\* mutant: the operands of the subtraction the wrong way round
ApplyOperator_commuted(operator, left, right) ==
    CASE operator = "PLUS"     -> left + right
      [] operator = "MINUS"    -> right - left
      [] operator = "MULTIPLY" -> left * right
      [] operator = "DIVIDE"   -> GoDiv(left, right)

\* the switch of parseExpression on a non-zero right operand
ApplyOperator(operator, left, right) ==
    CASE operator = "PLUS"     -> left + right
      [] operator = "MINUS"    -> left - right
      [] operator = "MULTIPLY" -> left * right
      [] operator = "DIVIDE"   -> GoDiv(left, right)

\* mutant: the zero check outside the case, for every operator
DivisionByZero_anyOperator(operator, right) == right = 0

\* case "DIVIDE": if right == 0 { panic("Division by zero") }
DivisionByZero(operator, right) == operator = "DIVIDE" /\ right = 0

IsOperator(type) == type \in {"PLUS", "MINUS", "MULTIPLY", "DIVIDE"}

\* mutant: a name once bound keeps its first value
MapSet_keepFirst(m, k, v) ==
    [n \in DOMAIN m \cup {k} |-> IF n \in DOMAIN m THEN m[n] ELSE v]

\* p.variables[varName] = value
MapSet(m, k, v) ==
    [n \in DOMAIN m \cup {k} |-> IF n = k THEN v ELSE m[n]]

----------------------------------------------------------------------------
(* The parser: a stack of frames *)

Frame(fn) ==
    [fn |-> fn, at |-> "entry", varName |-> <<>>, left |-> 0, operator |-> ""]

Top == stack[Len(stack)]

Running(fn, at) ==
    /\ pc = "run"
    /\ stack # <<>>
    /\ Top.fn = fn
    /\ Top.at = at

\* the caller stays at `at` while the callee runs
Call(caller, fn) ==
    [stack EXCEPT ![Len(stack)] = caller] \o <<Frame(fn)>>

Pop == SubSeq(stack, 1, Len(stack) - 1)

\* where main is once the top frame has returned
PcAfterReturn == IF Len(stack) = 1 THEN "check" ELSE "run"

\* the tokens not yet consumed, the current one included
Remaining == Len(tokens) + (IF curToken.Type \in {"", "EOF"} THEN 0 ELSE 1)

----------------------------------------------------------------------------
(* NewLexer and NewParser *)

\* tokenizeInput: one turn of its loop, that is one line of the file
tokenizeInput ==
    /\ pc = "lex"
    /\ scanned < Len(source)
    /\ \E toks \in {tokenizeLine(source[scanned + 1])} :
           IF \E i \in DOMAIN toks : toks[i].Type = "PANIC"
           THEN /\ pc' = "panic"
                /\ panicMsg' = <<"index out of range">>
                /\ UNCHANGED <<scanned, tokens>>
           ELSE /\ tokens' = tokens \o toks
                /\ scanned' = scanned + 1
                /\ UNCHANGED <<pc, panicMsg>>
    /\ UNCHANGED <<source, curToken, variables, output, stack, retval, stmtStart>>

\* the scanner is exhausted: NewLexer returns and main calls NewParser, which
\* makes the map and pulls the first token
NewParser ==
    /\ pc = "lex"
    /\ scanned = Len(source)
    /\ variables' = << >>
    /\ curToken' = NextToken(tokens).token
    /\ tokens' = NextToken(tokens).rest
    /\ pc' = "loop"
    /\ UNCHANGED <<source, scanned, output, stack, retval, panicMsg, stmtStart>>

----------------------------------------------------------------------------
(* main's loop *)

\* parser.parseStatement()
main_parseStatement ==
    /\ pc = "loop"
    /\ stack' = <<Frame("parseStatement")>>
    /\ pc' = "run"
    /\ stmtStart' = Remaining
    /\ UNCHANGED <<source, scanned, tokens, curToken, variables, output, retval,
                   panicMsg>>

\* if parser.curToken.Type == "EOF" { break }
main_checkEOF ==
    /\ pc = "check"
    /\ pc' = IF curToken.Type = "EOF" THEN "exit" ELSE "loop"
    /\ UNCHANGED <<source, scanned, tokens, curToken, variables, output, stack,
                   retval, panicMsg, stmtStart>>

----------------------------------------------------------------------------
(* parseStatement *)

\* case "IDENT", the identifier followed by ASSIGN: both are consumed and
\* parseExpression is called
parseStatement_assign ==
    /\ Running("parseStatement", "entry")
    /\ curToken.Type = "IDENT"
    /\ NextToken(tokens).token.Type = "ASSIGN"
    /\ LET afterName == NextToken(tokens)
           afterAssign == NextToken(afterName.rest)
       IN  /\ curToken' = afterAssign.token
           /\ tokens' = afterAssign.rest
           /\ stack' = Call([Top EXCEPT !.at = "assign", !.varName = curToken.Value],
                            "parseExpression")
    /\ UNCHANGED <<source, scanned, variables, output, retval, pc, panicMsg,
                   stmtStart>>

\* p.variables[varName] = value, once parseExpression has returned
parseStatement_store ==
    /\ Running("parseStatement", "assign")
    /\ variables' = MapSet(variables, Top.varName, retval)
    /\ stack' = Pop
    /\ pc' = PcAfterReturn
    /\ UNCHANGED <<source, scanned, tokens, curToken, output, retval, panicMsg,
                   stmtStart>>

\* mutant: the map's zero value for a missing key, `ok` not looked at
evaluateExpression_zeroValue(varName) ==
    [panic |-> FALSE,
     value |-> IF varName \in DOMAIN variables THEN variables[varName] ELSE 0]

\* evaluateExpression
evaluateExpression(varName) ==
    IF varName \in DOMAIN variables
    THEN [panic |-> FALSE, value |-> variables[varName]]
    ELSE [panic |-> TRUE, value |-> 0]

\* case "IDENT", no ASSIGN after the identifier: the identifier is consumed
\* and its value printed
parseStatement_reference ==
    /\ Running("parseStatement", "entry")
    /\ curToken.Type = "IDENT"
    /\ NextToken(tokens).token.Type # "ASSIGN"
    /\ curToken' = NextToken(tokens).token
    /\ tokens' = NextToken(tokens).rest
    /\ LET r == evaluateExpression(curToken.Value)
       IN  IF r.panic
           THEN /\ pc' = "panic"
                /\ panicMsg' = <<"Undefined variable", curToken.Value>>
                /\ stack' = <<>>
                /\ UNCHANGED output
           ELSE /\ output' = Append(output, r.value)
                /\ stack' = Pop
                /\ pc' = PcAfterReturn
                /\ UNCHANGED panicMsg
    /\ UNCHANGED <<source, scanned, variables, retval, stmtStart>>

\* default: parseExpression is called
parseStatement_default ==
    /\ Running("parseStatement", "entry")
    /\ curToken.Type # "IDENT"
    /\ stack' = Call([Top EXCEPT !.at = "print"], "parseExpression")
    /\ UNCHANGED <<source, scanned, tokens, curToken, variables, output, retval,
                   pc, panicMsg, stmtStart>>

\* fmt.Println(p.parseExpression()), once parseExpression has returned
parseStatement_print ==
    /\ Running("parseStatement", "print")
    /\ output' = Append(output, retval)
    /\ stack' = Pop
    /\ pc' = PcAfterReturn
    /\ UNCHANGED <<source, scanned, tokens, curToken, variables, retval,
                   panicMsg, stmtStart>>

----------------------------------------------------------------------------
(* parseExpression *)

\* left := p.parseTerm(), the call
parseExpression_entry ==
    /\ Running("parseExpression", "entry")
    /\ stack' = Call([Top EXCEPT !.at = "left"], "parseTerm")
    /\ UNCHANGED <<source, scanned, tokens, curToken, variables, output, retval,
                   pc, panicMsg, stmtStart>>

\* left := p.parseTerm(), the assignment
parseExpression_left ==
    /\ Running("parseExpression", "left")
    /\ stack' = [stack EXCEPT ![Len(stack)] = [Top EXCEPT !.at = "loop", !.left = retval]]
    /\ UNCHANGED <<source, scanned, tokens, curToken, variables, output, retval,
                   pc, panicMsg, stmtStart>>

\* the loop condition: on an operator, store it, consume it and call
\* parseTerm; otherwise return left
parseExpression_loop ==
    /\ Running("parseExpression", "loop")
    /\ IF IsOperator(curToken.Type)
       THEN /\ curToken' = NextToken(tokens).token
            /\ tokens' = NextToken(tokens).rest
            /\ stack' = Call([Top EXCEPT !.at = "right", !.operator = curToken.Type],
                             "parseTerm")
            /\ UNCHANGED <<retval, pc>>
       ELSE /\ retval' = Top.left
            /\ stack' = Pop
            /\ pc' = PcAfterReturn
            /\ UNCHANGED <<tokens, curToken>>
    /\ UNCHANGED <<source, scanned, variables, output, panicMsg, stmtStart>>

\* the switch on the operator with right = the term just parsed, then the
\* check for a right parenthesis
parseExpression_fold ==
    /\ Running("parseExpression", "right")
    /\ IF DivisionByZero(Top.operator, retval)
       THEN /\ pc' = "panic"
            /\ panicMsg' = <<"Division by zero">>
            /\ stack' = <<>>
            /\ UNCHANGED retval
       ELSE LET left == ApplyOperator(Top.operator, Top.left, retval)
            IN  IF curToken.Type = "RPAREN"
                THEN /\ retval' = left
                     /\ stack' = Pop
                     /\ pc' = PcAfterReturn
                     /\ UNCHANGED panicMsg
                ELSE /\ stack' = [stack EXCEPT ![Len(stack)] =
                                     [Top EXCEPT !.at = "loop", !.left = left]]
                     /\ UNCHANGED <<retval, pc, panicMsg>>
    /\ UNCHANGED <<source, scanned, tokens, curToken, variables, output, stmtStart>>

----------------------------------------------------------------------------
(* parseTerm *)

\* case "NUMBER"
parseTerm_NUMBER ==
    /\ Running("parseTerm", "entry")
    /\ curToken.Type = "NUMBER"
    /\ IF Atoi(curToken.Value).err
       THEN /\ pc' = "panic"
            /\ panicMsg' = <<"Failed to parse number">>
            /\ stack' = <<>>
            /\ UNCHANGED <<tokens, curToken, retval>>
       ELSE /\ curToken' = NextToken(tokens).token
            /\ tokens' = NextToken(tokens).rest
            /\ retval' = Atoi(curToken.Value).val
            /\ stack' = Pop
            /\ UNCHANGED <<pc, panicMsg>>
    /\ UNCHANGED <<source, scanned, variables, output, stmtStart>>

\* case "IDENT"
parseTerm_IDENT ==
    /\ Running("parseTerm", "entry")
    /\ curToken.Type = "IDENT"
    /\ curToken' = NextToken(tokens).token
    /\ tokens' = NextToken(tokens).rest
    /\ IF curToken.Value \in DOMAIN variables
       THEN /\ retval' = variables[curToken.Value]
            /\ stack' = Pop
            /\ UNCHANGED <<pc, panicMsg>>
       ELSE /\ pc' = "panic"
            /\ panicMsg' = <<"Undefined variable", curToken.Value>>
            /\ stack' = <<>>
            /\ UNCHANGED retval
    /\ UNCHANGED <<source, scanned, variables, output, stmtStart>>

\* case "LPAREN": the parenthesis is consumed and parseExpression called
parseTerm_LPAREN ==
    /\ Running("parseTerm", "entry")
    /\ curToken.Type = "LPAREN"
    /\ curToken' = NextToken(tokens).token
    /\ tokens' = NextToken(tokens).rest
    /\ stack' = Call([Top EXCEPT !.at = "rparen"], "parseExpression")
    /\ UNCHANGED <<source, scanned, variables, output, retval, pc, panicMsg,
                   stmtStart>>

\* mutant: the right parenthesis is checked for and left in place
parseTerm_RPAREN_notConsumed ==
    /\ Running("parseTerm", "rparen")
    /\ IF curToken.Type # "RPAREN"
       THEN /\ pc' = "panic"
            /\ panicMsg' = <<"Expected RPAREN">>
            /\ stack' = <<>>
       ELSE /\ stack' = Pop
            /\ UNCHANGED <<pc, panicMsg>>
    /\ UNCHANGED <<source, scanned, tokens, curToken, variables, output, retval,
                   stmtStart>>

\* case "LPAREN", once parseExpression has returned: the matching right
\* parenthesis is required and consumed, and the result returned
parseTerm_RPAREN ==
    /\ Running("parseTerm", "rparen")
    /\ IF curToken.Type # "RPAREN"
       THEN /\ pc' = "panic"
            /\ panicMsg' = <<"Expected RPAREN">>
            /\ stack' = <<>>
            /\ UNCHANGED <<tokens, curToken>>
       ELSE /\ curToken' = NextToken(tokens).token
            /\ tokens' = NextToken(tokens).rest
            /\ stack' = Pop
            /\ UNCHANGED <<pc, panicMsg>>
    /\ UNCHANGED <<source, scanned, variables, output, retval, stmtStart>>

\* default
parseTerm_default ==
    /\ Running("parseTerm", "entry")
    /\ curToken.Type \notin {"NUMBER", "IDENT", "LPAREN"}
    /\ pc' = "panic"
    /\ panicMsg' = <<"Unexpected token">>
    /\ stack' = <<>>
    /\ UNCHANGED <<source, scanned, tokens, curToken, variables, output, retval,
                   stmtStart>>

----------------------------------------------------------------------------
(* The input files *)

MaxWords == 3
MaxChars == 4
MaxBlocks == 2
MaxTerms == 3

SeqsUpTo(S, n) == UNION {[1..k -> S] : k \in 0..n}

\* the words of ws on one line, one space between them
RECURSIVE Line(_)
Line(ws) ==
    IF ws = <<>> THEN <<>>
    ELSE IF Len(ws) = 1 THEN ws[1]
    ELSE ws[1] \o <<" ">> \o Line(Tail(ws))

\* one line of up to MaxWords words
GenericWords ==
    {<<"0">>, <<"2">>, <<"a">>, <<"+">>, <<"/">>, <<"=">>, <<"(">>, <<")">>}

GenericSources == {<<Line(ws)>> : ws \in SeqsUpTo(GenericWords, MaxWords)}

RECURSIVE Flatten(_)
Flatten(bs) == IF bs = <<>> THEN <<>> ELSE Head(bs) \o Flatten(Tail(bs))

\* one line of up to MaxChars characters, each in its UTF-8 encoding
RawCharacters == {<<" ">>, <<"-">>, <<"5">>, <<"x">>, <<"(">>, Euro}

RawSources == {<<Flatten(cs)>> : cs \in SeqsUpTo(RawCharacters, MaxChars)}

\* an integer literal, then up to MaxTerms - 1 times an operator and a literal
ChainNumbers == {<<"-", "7">>, <<"0">>, <<"2">>}

ChainOperators == {<<"+">>, <<"-">>, <<"*">>, <<"/">>}

RECURSIVE Chains(_)
Chains(n) ==
    IF n = 1 THEN {<<x>> : x \in ChainNumbers}
    ELSE {c \o <<o, x>> : c \in Chains(n - 1), o \in ChainOperators, x \in ChainNumbers}

ChainSources == {<<Line(c)>> : c \in UNION {Chains(n) : n \in 1..MaxTerms}}

\* up to MaxBlocks blocks of lines, each a statement or a few
Blocks ==
    {<< <<>> >>,
     << Line(<< <<"1">>, <<"+">>, <<"1">> >>) >>,
     << Line(<< <<"a">>, <<"=">>, <<"5">> >>) >>,
     << Line(<< <<"a">>, <<"=">>, <<"0">> >>) >>,
     << Line(<< <<"b">>, <<"=">>, <<"1", "0">> >>) >>,
     << Line(<< <<"5">>, <<"+">>, <<"a">> >>) >>,
     << Line(<< <<"x">> >>) >>,
     << Line(<< <<"a">> >>) >>,
     << Line(<< <<"5">>, <<"/">>, <<"a">> >>) >>,
     << Line(<< <<"a">>, <<"+">>, <<"1">> >>) >>,
     << Line(<< <<"a">>, <<"=">>, <<"a">>, <<"+">>, <<"1">> >>) >>,
     << Line(<< <<"a">>, <<"=">>, <<"5">> >>),
        Line(<< <<"a">>, <<"=">>, <<"a">>, <<"*">>, <<"2">> >>),
        Line(<< <<"a">> >>) >>,
     << Line(<< <<"2">>, <<"+">> >>),
        Line(<< <<"3">> >>) >>}

BlockSources == {Flatten(bs) : bs \in SeqsUpTo(Blocks, MaxBlocks)}

\* the README's program and the specification's scenarios, and expressions
\* with parentheses, well formed and not
ExampleSources ==
    {<< Line(<< <<"1">>, <<"+">>, <<"1">> >>),
        Line(<< <<"1", "0">>, <<"-">>, <<"5">> >>),
        Line(<< <<"1", "0">>, <<"/">>, <<"2">> >>),
        Line(<< <<"2">>, <<"*">>, <<"6">> >>),
        <<>>,
        Line(<< <<"a">>, <<"=">>, <<"5">> >>),
        Line(<< <<"b">>, <<"=">>, <<"1", "0">> >>),
        <<" ", " ">>,
        Line(<< <<"5">>, <<"+">>, <<"a">> >>),
        <<>>,
        Line(<< <<"5">>, <<"+">>, <<"a">>, <<"-">>, <<"b">>, <<"+">>, <<"6">> >>) >>,
     << Line(<< <<"2">>, <<"+">>, <<"3">>, <<"*">>, <<"4">> >>) >>,
     << Line(<< <<"(", "2">>, <<"+">>, <<"3", ")">>, <<"*">>, <<"4">> >>) >>,
     << Line(<< <<"(">>, <<"2">>, <<"+">>, <<"3">>, <<")">>, <<"*">>, <<"4">> >>) >>,
     << Line(<< <<"5">>, <<"/">>, <<"0">> >>) >>,
     << Line(<< <<"5">>, <<"/">>, <<"(">>, <<"2">>, <<"-">>, <<"2">>, <<")">> >>) >>,
     << Line(<< <<"(">>, <<"(">>, <<"2">>, <<")">>, <<")">> >>) >>,
     << Line(<< <<"4">>, <<"*">>, <<"(">>, <<"2">>, <<"+">>, <<"(">>, <<"3">>,
                <<"-">>, <<"1">>, <<")">>, <<")">>, <<"-">>, <<"1">> >>) >>,
     << Line(<< <<"(">>, <<"2">>, <<"+">>, <<"3">> >>) >>,
     << Line(<< <<"(">>, <<"2">>, <<"3">>, <<")">> >>) >>,
     << Line(<< <<"(">>, <<"2">>, <<"+">>, <<"3">>, <<")">>, <<")">> >>) >>,
     << Line(<< <<"x">>, <<"=">>, <<"x">>, <<"+">>, <<"1">> >>) >>,
     << Line(<< <<"+", "5">>, <<"-">>, <<"-", "5">> >>),
        Line(<< <<"x", "1">>, <<"=">>, <<"0", "7">> >>),
        Line(<< <<"x", "1">>, <<"a", "=", "5">>, <<"1", "x">> >>) >>}

Sources ==
    GenericSources \cup RawSources \cup ChainSources \cup BlockSources
        \cup ExampleSources

----------------------------------------------------------------------------
(* The specification *)

Init ==
    /\ source = <<>>
    /\ scanned = 0
    /\ tokens = <<>>
    /\ curToken = [Type |-> "", Value |-> <<>>]
    /\ variables = << >>
    /\ output = <<>>
    /\ stack = <<>>
    /\ retval = 0
    /\ pc = "start"
    /\ panicMsg = <<>>
    /\ stmtStart = 0

\* NewLexer: os.Open succeeds on one of the input files, whose lines the
\* scanner will deliver
NewLexer ==
    /\ pc = "start"
    /\ source' \in Sources
    /\ pc' = "lex"
    /\ UNCHANGED <<scanned, tokens, curToken, variables, output, stack, retval,
                   panicMsg, stmtStart>>

Next ==
    \/ NewLexer
    \/ tokenizeInput
    \/ NewParser
    \/ main_parseStatement
    \/ main_checkEOF
    \/ parseStatement_assign
    \/ parseStatement_store
    \/ parseStatement_reference
    \/ parseStatement_default
    \/ parseStatement_print
    \/ parseExpression_entry
    \/ parseExpression_left
    \/ parseExpression_loop
    \/ parseExpression_fold
    \/ parseTerm_NUMBER
    \/ parseTerm_IDENT
    \/ parseTerm_LPAREN
    \/ parseTerm_RPAREN
    \/ parseTerm_default

Spec == Init /\ [][Next]_vars

\* main runs to its end: no step that can be taken is put off for ever
FairSpec == Spec /\ WF_vars(Next)

----------------------------------------------------------------------------
(* What the input says, read off the text without the lexer or the parser *)

\* the places of line where a whitespace-delimited word starts
WordStarts(line) ==
    {i \in DOMAIN line : line[i] # " " /\ (i = 1 \/ line[i - 1] = " ")}

\* the last place of the word that starts at i
WordEnd(line, i) ==
    CHOOSE j \in i..Len(line) :
        /\ \A k \in i..j : line[k] # " "
        /\ j = Len(line) \/ line[j + 1] = " "

\* the whitespace-delimited words of line, in order
RefWords(line) ==
    LET starts == WordStarts(line)
        nth(k) == CHOOSE i \in starts : Cardinality({j \in starts : j < i}) = k - 1
    IN  [k \in 1..Cardinality(starts) |-> SubSeq(line, nth(k), WordEnd(line, nth(k)))]

\* the words of the first n lines of the file, in order
RECURSIVE WordsOfLines(_, _)
WordsOfLines(lines, n) ==
    IF n = 0 THEN <<>> ELSE WordsOfLines(lines, n - 1) \o RefWords(lines[n])

AllWords == WordsOfLines(source, Len(source))

\* an optionally signed base-10 integer
RefIsInteger(w) ==
    \/ Len(w) >= 1 /\ \A i \in 1..Len(w) : w[i] \in Digits
    \/ Len(w) >= 2 /\ w[1] \in {"+", "-"} /\ \A i \in 2..Len(w) : w[i] \in Digits

RefDigit(c) ==
    CHOOSE n \in 0..9 : <<"0", "1", "2", "3", "4", "5", "6", "7", "8", "9">>[n + 1] = c

RECURSIVE RefNatural(_)
RefNatural(w) ==
    IF w = <<>> THEN 0
    ELSE 10 * RefNatural(SubSeq(w, 1, Len(w) - 1)) + RefDigit(w[Len(w)])

RefInt(w) ==
    IF w[1] = "-" THEN 0 - RefNatural(Tail(w))
    ELSE IF w[1] = "+" THEN RefNatural(Tail(w))
    ELSE RefNatural(w)

RefOperatorKind(w) ==
    CASE w = <<"+">> -> "PLUS"
      [] w = <<"-">> -> "MINUS"
      [] w = <<"*">> -> "MULTIPLY"
      [] w = <<"/">> -> "DIVIDE"
      [] w = <<"=">> -> "ASSIGN"
      [] w = <<"(">> -> "LPAREN"
      [] w = <<")">> -> "RPAREN"

\* the first character of a word of UTF-8 text
RefFirstCharacter(w) ==
    IF Len(w) >= 3 /\ <<w[1], w[2], w[3]>> = Euro THEN "U+20AC" ELSE w[1]

\* the kind of a word: the first match in the priority order
RefKind(w) ==
    IF Len(w) = 1 /\ w[1] \in {"+", "-", "*", "/", "=", "(", ")"} THEN RefOperatorKind(w)
    ELSE IF RefIsInteger(w) THEN "NUMBER"
    ELSE IF RefFirstCharacter(w) \in Letters THEN "IDENT"
    ELSE "UNKNOWN"

RefTokens(ws) == [i \in 1..Len(ws) |-> [Type |-> RefKind(ws[i]), Value |-> ws[i]]]

\* the quotient of a by b # 0 truncated toward zero: a = q*b + r with
\* |r| < |b| and r zero or of the sign of a
RefQuotient(a, b) ==
    CHOOSE q \in (0 - Abs(a))..Abs(a) :
        LET r == a - q * b
        IN  /\ Abs(r) < Abs(b)
            /\ r = 0 \/ (r < 0) = (a < 0)

RefApply(o, a, b) ==
    CASE o = <<"+">> -> a + b
      [] o = <<"-">> -> a - b
      [] o = <<"*">> -> a * b
      [] o = <<"/">> -> RefQuotient(a, b)

\* integer literals joined by + - * /
IsLiteralChain(ws) ==
    /\ Len(ws) % 2 = 1
    /\ \A i \in 1..Len(ws) :
          IF i % 2 = 1 THEN RefIsInteger(ws[i])
          ELSE ws[i] \in {<<"+">>, <<"-">>, <<"*">>, <<"/">>}

HasZeroDivisor(ws) ==
    \E i \in 1..Len(ws) - 1 :
        ws[i] = <<"/">> /\ RefIsInteger(ws[i + 1]) /\ RefInt(ws[i + 1]) = 0

\* (...((n1 o1 n2) o2 n3)...) of a literal chain
RECURSIVE RefFold(_)
RefFold(ws) ==
    IF Len(ws) = 1 THEN RefInt(ws[1])
    ELSE RefApply(ws[Len(ws) - 1], RefFold(SubSeq(ws, 1, Len(ws) - 2)),
                  RefInt(ws[Len(ws)]))

\* the tokens consumed so far, the current one not included
Consumed == Len(AllWords) - Remaining

----------------------------------------------------------------------------
(* C1: a statement of integer literals joined by + - * /, no zero divisor,
   evaluates to the left-to-right fold of its operators, no precedence:
   each time parseExpression is at its loop condition `left` is the fold of
   the chain consumed so far, and the run prints the fold of the whole chain
   and ends without a panic. *)
C1_LeftToRightFold ==
    (IsLiteralChain(AllWords) /\ ~HasZeroDivisor(AllWords)) =>
        /\ pc # "panic"
        /\ Running("parseExpression", "loop") =>
               Top.left = RefFold(SubSeq(AllWords, 1, Consumed))
        /\ pc = "exit" => output = <<RefFold(AllWords)>>

\* `2 + 3 * 4` has printed 20
C1_Witness ==
    /\ pc = "exit"
    /\ AllWords = << <<"2">>, <<"+">>, <<"3">>, <<"*">>, <<"4">> >>
    /\ output = <<20>>

----------------------------------------------------------------------------
(* C6: the lexer never fails, and the tokens of the lines scanned so far are
   one token per whitespace-delimited word, in source order across the
   lines, the text the whole word and the kind the first match of: one of
   the seven operator characters, an optionally signed base-10 integer, a
   first character that is a letter, otherwise Unknown. *)
C6_Tokenize ==
    /\ panicMsg # <<"index out of range">>
    /\ pc = "lex" => tokens = RefTokens(WordsOfLines(source, scanned))

\* the same of the files all of whose bytes are ASCII
IsAscii(lines) ==
    \A n \in DOMAIN lines : \A i \in DOMAIN lines[n] :
        lines[n][i] \notin {"xE2", "x82", "xAC"}

C6_TokenizeAscii == IsAscii(source) => C6_Tokenize

\* the three lines `+5 - -5`, `x1 = 07` and `x1 a=5 1x` are tokenized:
\* signed numbers beside the operator, identifiers with trailing digits and
\* symbols, and an Unknown left in the stream
C6_AsciiWitness ==
    /\ pc = "lex"
    /\ scanned = 3
    /\ scanned = Len(source)
    /\ [i \in DOMAIN tokens |-> tokens[i].Type] =
           <<"NUMBER", "MINUS", "NUMBER", "IDENT", "ASSIGN", "NUMBER",
             "IDENT", "IDENT", "UNKNOWN">>
    /\ tokens[8].Value = <<"a", "=", "5">>

----------------------------------------------------------------------------
(* Expressions with parentheses, read off the text *)

\* where the last term of ws starts: at the literal ws ends with, or at the
\* left parenthesis that matches the right parenthesis ws ends with; 0 if
\* ws ends with neither
LastTermStart(ws) ==
    LET n == Len(ws)
        Count(w, i) == Cardinality({k \in i..n : ws[k] = w})
        opens == {i \in 1..n : ws[i] = <<"(">> /\ Count(<<"(">>, i) = Count(<<")">>, i)}
    IN  IF n = 0 THEN 0
        ELSE IF RefIsInteger(ws[n]) THEN n
        ELSE IF ws[n] = <<")">> /\ opens # {}
             THEN CHOOSE i \in opens : \A k \in opens : k <= i
        ELSE 0

\* expression := term ((+|-|*|/) term)*,  term := literal | ( expression )
RECURSIVE IsExpression(_)
IsExpression(ws) ==
    LET n == Len(ws)
        s == LastTermStart(ws)
    IN  /\ s >= 1
        /\ \/ s = n
           \/ n - s >= 2 /\ IsExpression(SubSeq(ws, s + 1, n - 1))
        /\ \/ s = 1
           \/ /\ s >= 3
              /\ ws[s - 1] \in {<<"+">>, <<"-">>, <<"*">>, <<"/">>}
              /\ IsExpression(SubSeq(ws, 1, s - 2))

\* the value of an expression: each group is one term of the flat
\* left-to-right fold around it; ok is FALSE if some divisor is zero
RECURSIVE RefExpression(_)
RefExpression(ws) ==
    LET n == Len(ws)
        s == LastTermStart(ws)
        term == IF s = n THEN [ok |-> TRUE, val |-> RefInt(ws[n])]
                ELSE RefExpression(SubSeq(ws, s + 1, n - 1))
        left == RefExpression(SubSeq(ws, 1, s - 2))
    IN  IF s = 1 THEN term
        ELSE IF ~left.ok \/ ~term.ok THEN [ok |-> FALSE, val |-> 0]
        ELSE IF ws[s - 1] = <<"/">> /\ term.val = 0 THEN [ok |-> FALSE, val |-> 0]
        ELSE [ok |-> TRUE, val |-> RefApply(ws[s - 1], left.val, term.val)]

\* left parentheses less right parentheses among the first n words
NestingDepth(ws, n) ==
    Cardinality({k \in 1..n : ws[k] = <<"(">>}) - Cardinality({k \in 1..n : ws[k] = <<")">>})

\* the groups the parser has open: the parseTerm calls waiting for their
\* right parenthesis
OpenGroups ==
    Cardinality({i \in DOMAIN stack : stack[i].fn = "parseTerm" /\ stack[i].at = "rparen"})

Panicked(msg) == pc = "panic" /\ panicMsg = msg

----------------------------------------------------------------------------
(* C2: the environment starts empty; a step changes it only by completing
   an assignment, which writes the value of the right-hand side under the
   assigned name and leaves every other binding as it was; a bare reference
   to a bound name prints exactly its value; and between statements the
   environment of a file whose assignments all have a literal right-hand
   side binds each name to the literal of the last assignment to it consumed
   so far, and binds no other name. *)
LiteralAssignmentsOnly(ws) ==
    \A i \in 1..Len(ws) :
        ws[i] = <<"=">> =>
            /\ i > 1 /\ RefKind(ws[i - 1]) = "IDENT"
            /\ i < Len(ws) /\ RefIsInteger(ws[i + 1])
            /\ i + 2 <= Len(ws) => ws[i + 2] \notin {<<"+">>, <<"-">>, <<"*">>, <<"/">>}

\* the places of the assignments to name among the first n words
AssignmentsTo(ws, name, n) ==
    {i \in 1..n : i + 2 <= n /\ ws[i] = name /\ ws[i + 1] = <<"=">>}

RefEnvironmentHolds(ws, n) ==
    /\ DOMAIN variables = {ws[i] : i \in {k \in 1..n : AssignmentsTo(ws, ws[k], n) # {}}}
    /\ \A name \in DOMAIN variables :
          LET last == CHOOSE i \in AssignmentsTo(ws, name, n) :
                          \A k \in AssignmentsTo(ws, name, n) : k <= i
          IN  variables[name] = RefInt(ws[last + 2])

C2_Environment ==
    /\ [](pc \in {"start", "lex"} => variables = << >>)
    /\ []((pc \in {"loop", "check", "exit"} /\ LiteralAssignmentsOnly(AllWords))
            => RefEnvironmentHolds(AllWords, Consumed))
    /\ [][variables' # variables =>
            /\ Running("parseStatement", "assign")
            /\ pc' # "panic"
            /\ DOMAIN variables' = DOMAIN variables \cup {Top.varName}
            /\ variables'[Top.varName] = retval
            /\ \A n \in DOMAIN variables \ {Top.varName} : variables'[n] = variables[n]]_vars
    /\ [][(/\ Running("parseStatement", "entry")
           /\ curToken.Type = "IDENT"
           /\ (tokens = <<>> \/ tokens[1].Type # "ASSIGN")
           /\ curToken.Value \in DOMAIN variables)
            => output' = Append(output, variables[curToken.Value])]_vars

\* a = 5, a = a * 2, a: the second assignment read the 5 and overwrote it,
\* and the reference has printed 10
C2_Witness ==
    /\ pc = "exit"
    /\ AllWords = << <<"a">>, <<"=">>, <<"5">>,
                     <<"a">>, <<"=">>, <<"a">>, <<"*">>, <<"2">>, <<"a">> >>
    /\ variables = (<<"a">> :> 10)
    /\ output = <<10>>

----------------------------------------------------------------------------
(* C7: a step panics with "Division by zero" exactly when parseExpression
   folds a `/` whose right-hand term evaluated to zero; so an expression of
   literals and groups with a zero divisor, literal or group, never prints
   and ends in that panic, and one with no zero divisor never panics. *)
C7_DivisionByZero ==
    /\ [][(pc # "panic" /\ Panicked(<<"Division by zero">>)')
            <=> (/\ Running("parseExpression", "right")
                 /\ Top.operator = "DIVIDE"
                 /\ retval = 0)]_vars
    /\ [](IsExpression(AllWords) =>
            IF RefExpression(AllWords).ok
            THEN pc # "panic"
            ELSE /\ pc # "exit"
                 /\ output = <<>>
                 /\ pc = "panic" => panicMsg = <<"Division by zero">>)

\* a = 0, then 5 / a: the divisor is a variable bound to 0
C7_Witness ==
    /\ Panicked(<<"Division by zero">>)
    /\ AllWords = << <<"a">>, <<"=">>, <<"0">>, <<"5">>, <<"/">>, <<"a">> >>
    /\ variables = (<<"a">> :> 0)

----------------------------------------------------------------------------
(* C8: a step panics with "Undefined variable" and the name exactly when it
   reads an identifier that has no binding, as a bare identifier statement
   or as a term of an expression; a read of a bound identifier yields its
   value; so a file that starts with a bare identifier, or with an
   assignment whose right-hand side starts with an identifier, ends in that
   panic with that identifier's name and prints nothing. *)
ReadsIdentifier ==
    \/ Running("parseTerm", "entry") /\ curToken.Type = "IDENT"
    \/ /\ Running("parseStatement", "entry")
       /\ curToken.Type = "IDENT"
       /\ (tokens = <<>> \/ tokens[1].Type # "ASSIGN")

C8_UndefinedVariable ==
    /\ [][(pc # "panic" /\ pc' = "panic" /\ panicMsg'[1] = "Undefined variable")
            <=> (ReadsIdentifier /\ curToken.Value \notin DOMAIN variables)]_vars
    /\ [][(ReadsIdentifier /\ curToken.Value \notin DOMAIN variables)
            => panicMsg' = <<"Undefined variable", curToken.Value>>]_vars
    /\ [][(Running("parseTerm", "entry") /\ curToken.Type = "IDENT"
             /\ curToken.Value \in DOMAIN variables)
            => retval' = variables[curToken.Value]]_vars
    /\ []((/\ Len(AllWords) >= 1
           /\ RefKind(AllWords[1]) = "IDENT"
           /\ Len(AllWords) >= 2 => AllWords[2] # <<"=">>)
            => /\ pc \notin {"check", "exit"}
               /\ output = <<>>
               /\ pc = "panic" => panicMsg = <<"Undefined variable", AllWords[1]>>)
    /\ []((/\ Len(AllWords) >= 3
           /\ RefKind(AllWords[1]) = "IDENT"
           /\ AllWords[2] = <<"=">>
           /\ RefKind(AllWords[3]) = "IDENT")
            => /\ pc \notin {"check", "exit"}
               /\ variables = << >>
               /\ pc = "panic" => panicMsg = <<"Undefined variable", AllWords[3]>>)

\* x = x + 1 with x unbound
C8_Witness ==
    /\ Panicked(<<"Undefined variable", <<"x">>>>)
    /\ AllWords = << <<"x">>, <<"=">>, <<"x">>, <<"+">>, <<"1">> >>

----------------------------------------------------------------------------
(* C9: a parenthesized group is one term of the flat fold around it.  When
   the parseExpression call of a group has returned and the current token is
   a right parenthesis, that parenthesis is the one that closes the
   innermost group still open; a return of parseExpression consumes nothing;
   parseTerm then consumes exactly that one token and returns the group's
   value, and on any other token it panics with "Expected RPAREN"; so a file
   that is one expression of literals and groups, nested to any depth,
   prints the value in which each group counts as one term. *)
C9_Groups ==
    /\ []((Running("parseTerm", "rparen") /\ curToken.Type = "RPAREN")
            => /\ AllWords[Consumed + 1] = <<")">>
               /\ NestingDepth(AllWords, Consumed) = OpenGroups)
    /\ [][(pc = "run" /\ pc' # "panic" /\ Top.fn = "parseExpression"
             /\ Len(stack') < Len(stack))
            => UNCHANGED <<tokens, curToken>>]_vars
    /\ [][Running("parseTerm", "rparen")
            => IF curToken.Type = "RPAREN"
               THEN /\ pc' = "run"
                    /\ Remaining' = Remaining - 1
                    /\ OpenGroups' = OpenGroups - 1
                    /\ Len(stack') = Len(stack) - 1
                    /\ retval' = retval
               ELSE Panicked(<<"Expected RPAREN">>)']_vars
    /\ []((IsExpression(AllWords) /\ pc = "exit")
            => output = <<RefExpression(AllWords).val>>)

\* 4 * ( 2 + ( 3 - 1 ) ) - 1 has printed 15
C9_Witness ==
    /\ pc = "exit"
    /\ IsExpression(AllWords)
    /\ \E i \in 1..Len(AllWords) : NestingDepth(AllWords, i) = 2
    /\ output = <<15>>

----------------------------------------------------------------------------
(* C10: every run ends, at main's exit or at the first panic; once the
   parser exists the number of tokens not yet consumed never increases;
   every parseStatement call that returns has consumed at least one token;
   and NextToken on the empty stream returns EOF and leaves it empty. *)
C10_Termination ==
    /\ [][pc \notin {"start", "lex"} => Remaining' <= Remaining]_vars
    /\ [](pc = "check" => Remaining < stmtStart)
    /\ [][(tokens = <<>> /\ curToken' # curToken)
            => (curToken'.Type = "EOF" /\ tokens' = <<>>)]_vars
    /\ <>(pc \in {"exit", "panic"})

\* a run of several statements has reached main's exit on EOF
C10_Witness ==
    /\ pc = "exit"
    /\ curToken.Type = "EOF"
    /\ tokens = <<>>
    /\ Len(output) >= 2
    /\ Len(AllWords) >= 6

----------------------------------------------------------------------------
(* C3: the file of the one line `(2 + 3) * 4`, no space between a
   parenthesis and the number next to it, prints the single line 20 and
   ends without error. *)
C3_ParenthesesScenario ==
    source = << Line(<< <<"(", "2">>, <<"+">>, <<"3", ")">>, <<"*">>, <<"4">> >>) >>
        => /\ pc # "panic"
           /\ pc = "exit" => output = <<20>>

----------------------------------------------------------------------------
(* C4: the failing statement emits no output line, also when it is written
   as a bound identifier followed by an operator and a term: if the run
   panics on a line of that form and every line before it is an assignment,
   nothing has been printed. *)
\* the line of the k-th word of the file
LineOfWord(k) ==
    CHOOSE n \in 1..Len(source) :
        /\ Len(WordsOfLines(source, n)) >= k
        /\ Len(WordsOfLines(source, n - 1)) < k

IsAssignmentLine(ws) == Len(ws) >= 3 /\ RefKind(ws[1]) = "IDENT" /\ ws[2] = <<"=">>

IsIdentifierOperatorTerm(ws) ==
    /\ Len(ws) = 3
    /\ RefKind(ws[1]) = "IDENT"
    /\ ws[2] \in {<<"+">>, <<"-">>, <<"*">>, <<"/">>}
    /\ RefKind(ws[3]) \in {"NUMBER", "IDENT"}

C4_NoPartialOutput ==
    (pc = "panic" /\ Consumed < Len(AllWords)) =>
        LET failing == LineOfWord(Consumed + 1)
        IN  (/\ IsIdentifierOperatorTerm(RefWords(source[failing]))
             /\ RefWords(source[failing])[1] \in DOMAIN variables
             /\ \A n \in 1..failing - 1 : IsAssignmentLine(RefWords(source[n])))
                => output = <<>>

----------------------------------------------------------------------------
(* C5: parseStatement is invoked only while the current token is not
   EndOfInput, and a file that yields no tokens ends with no output and no
   error. *)
C5_EmptySource ==
    /\ Running("parseStatement", "entry") => curToken.Type # "EOF"
    /\ AllWords = <<>> => (pc # "panic" /\ output = <<>>)

====
